---- MODULE Spec2Model ----
(***************************************************************************)
(* Model of modelscope/pipelines/base.py: the Pipeline base class.         *)
(*                                                                         *)
(* Two specifications are given.  SpecConstruct explores the constructor   *)
(* (and the model resolver it calls) over a wide set of model arguments.   *)
(* Spec explores the whole life of a pipeline: construction from a few     *)
(* representative arguments, then __call__ on single items, lists and      *)
(* datasets, one step (preprocess, forward, postprocess, _check_output)    *)
(* per action.                                                             *)
(***************************************************************************)
EXTENDS Integers, Sequences, FiniteSets, TLC

\* ------------------------------------------------------------------ bounds
\* longest list of models handed to the constructor
MaxModels == 2
\* longest list / dataset handed to __call__
MaxLen == 2

\* ------------------------------------------------------------------ values
\* Python values are records [kind, val, elems]; elems is the element sequence
\* of a list and <<>> otherwise.
Val(k, v) == [kind |-> k, val |-> v, elems |-> <<>>]
None == Val("none", "None")
Str(s) == Val("str", s)
ModelObj(n) == Val("Model", n)
IntVal(n) == Val("int", n)
ListVal(s) == [kind |-> "list", val |-> "list", elems |-> s]
\* an attribute that was never assigned (reading it raises AttributeError)
Unset == Val("unset", "unset")

\* Python truthiness of a value (`if model`)
Truthy(v) ==
    CASE v.kind = "none" -> FALSE
      [] v.kind = "str" -> v.val # ""
      [] v.kind = "int" -> v.val # "0"
      [] v.kind = "list" -> Len(v.elems) > 0
      [] OTHER -> TRUE

HubIds == {"damo/model", "damo/other"}
CachedPaths == {"/cache/damo/model", "/cache/damo/other"}
Strings == HubIds \cup CachedPaths \cup {"plain text", ""}
SingleModelArgs ==
    {None} \cup {Str(s) : s \in Strings}
           \cup {ModelObj(n) : n \in {"m1", "m2"}}
           \cup {IntVal(n) : n \in {"0", "7"}}

\* sequences over S of length 0..n
SeqsUpTo(S, n) == UNION {[1..k -> S] : k \in 0..n}

\* ------------------------------------------------- external collaborators
\* util.is_official_hub_path: hub ids and local hub directories are recognized
is_official_hub_path(s) == s \in HubIds \cup CachedPaths
\* os.path.exists
osp_exists(s) == s \in CachedPaths
\* hub.snapshot_download: the local directory a hub id is downloaded to
snapshot_download(s) == IF s = "damo/model" THEN "/cache/damo/model" ELSE "/cache/damo/other"
\* util.is_model: does the directory hold a known model type
is_model(p) == p = "/cache/damo/model"
\* Model.from_pretrained: a fresh model instance built from a directory
from_pretrained(p) == ModelObj(p)
\* Config.from_file: parses the file, raising on a malformed one
ConfigFiles == {"None", "configuration.json", "malformed.json"}
Config_from_file(f) == [raised |-> f = "malformed.json", val |-> f]

\* ------------------------------------------------------------ the resolver
\* A call's outcome: raised (with the exception type in err) or a value,
\* and the log of collaborator calls it made.
Returned(v, l) == [raised |-> FALSE, err |-> "none", val |-> v, log |-> l]
Raised(e, l) == [raised |-> TRUE, err |-> e, val |-> Unset, log |-> l]

\* mutant: the type test without the emptiness test (`if not isinstance(model, str)`)
initiate_single_model_NoEmptyTest(model) ==
    IF model.kind = "str" /\ is_official_hub_path(model.val)
    THEN LET dl == ~osp_exists(model.val)
             path == IF dl THEN snapshot_download(model.val) ELSE model.val
             l1 == IF dl THEN << <<"snapshot_download", model.val>> >> ELSE <<>>
         IN  IF is_model(path)
             THEN Returned(from_pretrained(path), Append(l1, <<"from_pretrained", path>>))
             ELSE Returned(Str(path), l1)
    ELSE IF model.kind = "Model"
    THEN Returned(model, <<>>)
    ELSE IF model.kind # "str"
         THEN Raised("ValueError", <<>>)
         ELSE Returned(model, <<>>)

\* mutant: a string the hub does not recognize is rejected like any other value
initiate_single_model_RejectUnknown(model) ==
    IF model.kind = "str" /\ is_official_hub_path(model.val)
    THEN LET dl == ~osp_exists(model.val)
             path == IF dl THEN snapshot_download(model.val) ELSE model.val
             l1 == IF dl THEN << <<"snapshot_download", model.val>> >> ELSE <<>>
         IN  IF is_model(path)
             THEN Returned(from_pretrained(path), Append(l1, <<"from_pretrained", path>>))
             ELSE Returned(Str(path), l1)
    ELSE IF model.kind = "Model"
    THEN Returned(model, <<>>)
    ELSE IF Truthy(model)
         THEN Raised("ValueError", <<>>)
         ELSE Returned(model, <<>>)

\* Pipeline.initiate_single_model
initiate_single_model(model) ==
    IF model.kind = "str" /\ is_official_hub_path(model.val)
    THEN LET dl == ~osp_exists(model.val)
             path == IF dl THEN snapshot_download(model.val) ELSE model.val
             l1 == IF dl THEN << <<"snapshot_download", model.val>> >> ELSE <<>>
         IN  IF is_model(path)
             THEN Returned(from_pretrained(path), Append(l1, <<"from_pretrained", path>>))
             ELSE Returned(Str(path), l1)
    ELSE IF model.kind = "Model"
    THEN Returned(model, <<>>)
    ELSE IF Truthy(model) /\ model.kind # "str"
         THEN Raised("ValueError", <<>>)
         ELSE Returned(model, <<>>)

\* Pipeline.initiate_multiple_models: the loop from entry i on, models and log
\* being what the earlier entries produced
RECURSIVE ResolveFrom(_, _, _, _)
ResolveFrom(input_models, i, models, log) ==
    IF i > Len(input_models)
    THEN Returned(ListVal(models), log)
    ELSE LET r == initiate_single_model(input_models[i])
         IN  IF r.raised
             THEN Raised(r.err, log \o r.log)
             ELSE ResolveFrom(input_models, i + 1, Append(models, r.val), log \o r.log)

initiate_multiple_models(input_models) == ResolveFrom(input_models, 1, <<>>, <<>>)

\* ------------------------------------------------------- output registry
\* outputs.TASK_OUTPUTS: task name -> ordered list of required output keys
Keys == {"a", "b"}
TASK_OUTPUTS == [t \in {"task-ba", "task-a"} |-> IF t = "task-ba" THEN <<"b", "a">> ELSE <<"a">>]
\* group_key of a class the registry never attached one to
NoGroupKey == "<unset>"
\* what the pipeline class may carry as group_key
GroupKeys == DOMAIN TASK_OUTPUTS \cup {"task-unregistered", NoGroupKey}

\* ------------------------------------------------------------------ inputs
\* A raw input item is identified by the set of keys the pipeline's
\* postprocess produces for it.
Items == SUBSET Keys
KwargSets == {{}, {"topk"}}
Preprocessors == {None, Val("Preprocessor", "p1"),
                  ListVal(<<Val("Preprocessor", "p1"), Val("Preprocessor", "p2")>>)}

\* constructor arguments explored by SpecConstruct
ModelArgs == SingleModelArgs \cup {ListVal(s) : s \in SeqsUpTo(SingleModelArgs, MaxModels)}
\* constructor arguments explored by Spec, before calls
CallModelArgs == {None, ModelObj("m1"), Str("plain text")}
                 \cup {ListVal(s) : s \in [1..MaxModels -> {ModelObj("m1"), ModelObj("m2")}]}
CallPreprocessors == Preprocessors

\* ------------------------------------------------------------------- state
VARIABLES
    group_key,            \* class attribute attached by the registry
    overrides,            \* which optional steps the concrete subclass overrides
    phase,                \* "new", "ready" (constructed) or "init_raised"
    ctorArgs,             \* the arguments __init__ was called with
    ctorErr,              \* the exception __init__ raised, "none" otherwise
    hubLog,               \* collaborator calls made while resolving models
    cfg,                  \* self.cfg
    model,                \* self.model
    models,               \* self.models
    has_multiple_models,  \* self.has_multiple_models
    preprocessor,         \* self.preprocessor
    pc,                   \* position of the running __call__ / generator
    mode,                 \* "single", "list" or "dataset"
    input,                \* the items of the input, in order
    kwargs,               \* the keyword arguments of the call
    idx,                  \* index of the element being processed
    out,                  \* local `out` of _process_single
    output,               \* local `output` of __call__
    retKind,              \* what __call__ returned: "none", "mapping", "list", "generator"
    ret,                  \* the returned results (one for a mapping)
    yielded,              \* what the generator has yielded so far
    err,                  \* the exception propagated to the caller
    trace,                \* steps invoked so far, <<step, element index>>
    pulls,                \* how often the consumer asked the generator for a result
    warnings,             \* warnings logged during the call
    modelCalls            \* invocations of self.model during the call

classVars == <<group_key, overrides>>
objVars == <<phase, ctorArgs, ctorErr, hubLog, cfg, model, models, has_multiple_models, preprocessor>>
callVars == <<pc, mode, input, kwargs, idx, out, output, retKind, ret, yielded, err, trace,
              pulls, warnings, modelCalls>>
vars == <<classVars, objVars, callVars>>

NoArgs == [config_file |-> "None", model |-> None, preprocessor |-> None]
NoErr == [type |-> "none", step |-> "none", idx |-> 0, expected |-> <<>>, missing |-> <<>>]
NoOut == <<"none">>

Init ==
    /\ group_key \in GroupKeys
    /\ overrides \in [pre : BOOLEAN, fwd : BOOLEAN]
    /\ phase = "new"
    /\ ctorArgs = NoArgs
    /\ ctorErr = "none"
    /\ hubLog = <<>>
    /\ cfg = "unset"
    /\ model = Unset
    /\ models = Unset
    /\ has_multiple_models = FALSE
    /\ preprocessor = Unset
    /\ pc = "idle"
    /\ mode = "none"
    /\ input = <<>>
    /\ kwargs = {}
    /\ idx = 0
    /\ out = NoOut
    /\ output = <<>>
    /\ retKind = "none"
    /\ ret = <<>>
    /\ yielded = <<>>
    /\ err = NoErr
    /\ trace = <<>>
    /\ pulls = 0
    /\ warnings = 0
    /\ modelCalls = 0

\* ------------------------------------------------------------- __init__
\* mutant: no model supplied leaves self.models empty
ResolveModels_SkipNone(m) ==
    IF m.kind # "list"
    THEN LET r == initiate_single_model(m)
         IN  [r EXCEPT !.val = [single |-> r.val,
                                list |-> IF r.raised THEN Unset
                                         ELSE IF r.val = None THEN ListVal(<<>>)
                                         ELSE ListVal(<<r.val>>)]]
    ELSE LET r == initiate_multiple_models(m.elems)
         IN  [r EXCEPT !.val = [single |-> Unset, list |-> r.val]]

\* the models branch of __init__: the resolver's outcome, self.model and self.models
ResolveModels(m) ==
    IF m.kind # "list"
    THEN LET r == initiate_single_model(m)
         IN  [r EXCEPT !.val = [single |-> r.val,
                                list |-> IF r.raised THEN Unset ELSE ListVal(<<r.val>>)]]
    ELSE LET r == initiate_multiple_models(m.elems)
         IN  [r EXCEPT !.val = [single |-> Unset, list |-> r.val]]

HasMultipleModels(ms) == Len(ms.elems) > 1

\* __init__ raises: what was assigned before the raise stays assigned (self.cfg
\* when the configuration was parsed and the resolver raised), the rest is not
InitFails(e, l, c) ==
    /\ phase' = "init_raised"
    /\ ctorErr' = e
    /\ hubLog' = l
    /\ cfg' = c
    /\ UNCHANGED <<model, models, has_multiple_models, preprocessor>>

\* Pipeline.__init__(config_file, model, preprocessor)
Construct(config_file, m, p) ==
    /\ phase = "new"
    /\ ctorArgs' = [config_file |-> config_file, model |-> m, preprocessor |-> p]
    /\ LET c == Config_from_file(config_file)
           r == ResolveModels(m)
       IN  IF config_file # "None" /\ c.raised
           THEN InitFails("ConfigError", <<>>, cfg)
           ELSE IF r.raised
           THEN InitFails(r.err, r.log, IF config_file # "None" THEN c.val ELSE cfg)
           ELSE /\ phase' = "ready"
                /\ ctorErr' = "none"
                /\ hubLog' = r.log
                /\ cfg' = IF config_file # "None" THEN c.val ELSE "unset"
                /\ model' = r.val.single
                /\ models' = r.val.list
                /\ has_multiple_models' = HasMultipleModels(r.val.list)
                /\ preprocessor' = p
    /\ UNCHANGED <<classVars, callVars>>

ConstructAny ==
    \E config_file \in ConfigFiles, m \in ModelArgs, p \in Preprocessors :
        Construct(config_file, m, p)

ConstructForCalls ==
    \E m \in CallModelArgs, p \in CallPreprocessors : Construct("None", m, p)

\* the constructor alone, for one registered subclass
InitConstruct == Init /\ group_key = "task-a" /\ overrides = [pre |-> FALSE, fwd |-> FALSE]
NextConstruct == ConstructAny
SpecConstruct == InitConstruct /\ [][NextConstruct]_vars

\* ------------------------------------------------------------- the steps
\* The collaborators (preprocessor, model, postprocess) are opaque: applying
\* one to y with parameters ps is the term <<name, y, ps>>, or it raises.
Apply(name, y, ps) == <<name, y, ps>>
\* the raw item a term was computed from
RECURSIVE ItemOf(_)
ItemOf(y) == IF y[1] \in {"pre", "fwd", "post"} THEN ItemOf(y[2]) ELSE y[2]
Raw(x) == <<"raw", x>>
\* the keys of the mapping postprocess returned
MappingKeys(y) == ItemOf(y)

StepOk(v) == [raised |-> FALSE, err |-> "none", val |-> v, called |-> 0]
StepRaised(e) == [raised |-> TRUE, err |-> e, val |-> NoOut, called |-> 0]
\* an opaque callee: returns its term or raises
Callee(name, y, ps, calleeRaises) ==
    IF calleeRaises THEN StepRaised("RuntimeError") ELSE StepOk(Apply(name, y, ps))

\* Pipeline._sanitize_parameters
sanitize_parameters(pipeline_parameters) ==
    [preprocess |-> {}, forward |-> {}, postprocess |-> pipeline_parameters]

\* Pipeline.preprocess, or the subclass's override
preprocess(inputs, preprocess_params, calleeRaises) ==
    IF overrides.pre
    THEN Callee("pre", inputs, preprocess_params, calleeRaises)
    ELSE IF preprocessor = None
    THEN StepRaised("AssertionError")
    ELSE IF preprocessor.kind = "list"
    THEN StepRaised("AssertionError")
    ELSE Callee("pre", inputs, preprocess_params, calleeRaises)

\* Pipeline.forward, or the subclass's override
forward(inputs, forward_params, calleeRaises) ==
    IF overrides.fwd
    THEN Callee("fwd", inputs, forward_params, calleeRaises)
    ELSE IF model = Unset
    THEN StepRaised("AttributeError")
    ELSE IF model = None
    THEN StepRaised("AssertionError")
    ELSE IF has_multiple_models
    THEN StepRaised("AssertionError")
    ELSE IF model.kind # "Model"
    THEN StepRaised("TypeError")
    ELSE [Callee("fwd", inputs, forward_params, calleeRaises) EXCEPT !.called = 1]

\* the subclass's postprocess
postprocess(inputs, postprocess_params, calleeRaises) ==
    Callee("post", inputs, postprocess_params, calleeRaises)

\* mutant: the membership test inverted (`if k in input`)
MissingKeys_Present(output_keys, inp) ==
    SelectSeq(output_keys, LAMBDA k : k \in MappingKeys(inp))

\* the loop of _check_output: the expected keys absent from the mapping, in order
MissingKeys(output_keys, inp) ==
    SelectSeq(output_keys, LAMBDA k : k \notin MappingKeys(inp))

\* mutant: an unregistered task is treated as a validation failure
check_output_Strict(inp) ==
    IF group_key = NoGroupKey
    THEN [raised |-> TRUE, type |-> "AttributeError", warned |-> 0,
          expected |-> <<>>, missing |-> <<>>]
    ELSE IF group_key \notin DOMAIN TASK_OUTPUTS
    THEN [raised |-> TRUE, type |-> "ValueError", warned |-> 1,
          expected |-> <<>>, missing |-> <<>>]
    ELSE LET output_keys == TASK_OUTPUTS[group_key]
             missing_keys == SelectSeq(output_keys, LAMBDA k : k \notin MappingKeys(inp))
         IN  [raised |-> Len(missing_keys) > 0, type |-> "ValueError", warned |-> 0,
              expected |-> output_keys, missing |-> missing_keys]

\* Pipeline._check_output
check_output(inp) ==
    LET task_name == group_key
    IN  IF task_name = NoGroupKey
        THEN [raised |-> TRUE, type |-> "AttributeError", warned |-> 0,
              expected |-> <<>>, missing |-> <<>>]
        ELSE IF task_name \notin DOMAIN TASK_OUTPUTS
        THEN [raised |-> FALSE, type |-> "none", warned |-> 1,
              expected |-> <<>>, missing |-> <<>>]
        ELSE LET output_keys == TASK_OUTPUTS[task_name]
                 missing_keys == MissingKeys(output_keys, inp)
             IN  [raised |-> Len(missing_keys) > 0, type |-> "ValueError", warned |-> 0,
                  expected |-> output_keys, missing |-> missing_keys]

\* ------------------------------------------------------------- __call__
Inputs ==
    [kind : {"single"}, items : [1..1 -> Items]]
    \cup [kind : {"list", "dataset"}, items : SeqsUpTo(Items, MaxLen)]

\* mutant: a failing element makes a list call hand back the results so far
Fail_PartialResult(e) ==
    /\ pc' = "raised"
    /\ err' = e
    /\ IF mode = "list"
       THEN retKind' = "list" /\ ret' = output
       ELSE UNCHANGED <<retKind, ret>>
    /\ UNCHANGED <<idx, output, yielded>>

\* an exception leaves _process_single and __call__ (or the generator)
\* without handing back a result; locals are left as they were
Fail(e) ==
    /\ pc' = "raised"
    /\ err' = e
    /\ UNCHANGED <<idx, output, retKind, ret, yielded>>

Exc(type, step) ==
    [type |-> type, step |-> step, idx |-> idx, expected |-> <<>>, missing |-> <<>>]

\* mutant: a dataset is iterated eagerly, like a list
Call_Eager(inp, kw) ==
    /\ phase = "ready"
    /\ pc = "idle"
    /\ mode' = inp.kind
    /\ input' = inp.items
    /\ kwargs' = kw
    /\ out' = <<"none">>
    /\ output' = <<>>
    /\ ret' = <<>>
    /\ yielded' = <<>>
    /\ err' = NoErr
    /\ trace' = <<>>
    /\ pulls' = 0
    /\ warnings' = 0
    /\ modelCalls' = 0
    /\ IF Len(inp.items) = 0
       THEN pc' = "done" /\ retKind' = "list" /\ idx' = 0
       ELSE pc' = "pre" /\ retKind' = "none" /\ idx' = 1
    /\ UNCHANGED <<classVars, objVars>>

\* Pipeline.__call__(input, **kwargs): dispatch on the input's shape
Call(inp, kw) ==
    /\ phase = "ready"
    /\ pc = "idle"
    /\ mode' = inp.kind
    /\ input' = inp.items
    /\ kwargs' = kw
    /\ out' = NoOut
    /\ output' = <<>>
    /\ ret' = <<>>
    /\ yielded' = <<>>
    /\ err' = NoErr
    /\ trace' = <<>>
    /\ pulls' = 0
    /\ warnings' = 0
    /\ modelCalls' = 0
    /\ CASE inp.kind = "list" ->
              IF Len(inp.items) = 0
              THEN pc' = "done" /\ retKind' = "list" /\ idx' = 0
              ELSE pc' = "pre" /\ retKind' = "none" /\ idx' = 1
         [] inp.kind = "dataset" ->
              pc' = "generator" /\ retKind' = "generator" /\ idx' = 0
         [] OTHER ->
              pc' = "pre" /\ retKind' = "none" /\ idx' = 1
    /\ UNCHANGED <<classVars, objVars>>

CallAny == \E inp \in Inputs, kw \in KwargSets : Call(inp, kw)

\* the consumer asks the generator of _process_iterator for the next result
Pull ==
    /\ pc \in {"generator", "yielded"}
    /\ IF idx < Len(input)
       THEN pc' = "pre" /\ idx' = idx + 1
       ELSE pc' = "exhausted" /\ idx' = idx
    /\ pulls' = pulls + 1
    /\ UNCHANGED <<classVars, objVars, mode, input, kwargs, out, output, retKind, ret,
                   yielded, err, trace, warnings, modelCalls>>

\* _process_single: sanitize the parameters and call self.preprocess
Preprocess ==
    /\ pc = "pre"
    /\ trace' = Append(trace, <<"preprocess", idx>>)
    /\ \E calleeRaises \in BOOLEAN :
         LET r == preprocess(Raw(input[idx]), sanitize_parameters(kwargs).preprocess,
                             calleeRaises)
         IN  IF r.raised
             THEN Fail(Exc(r.err, "preprocess")) /\ out' = out
             ELSE /\ pc' = "fwd" /\ out' = r.val /\ err' = err
                  /\ UNCHANGED <<idx, output, retKind, ret, yielded>>
    /\ UNCHANGED <<classVars, objVars, mode, input, kwargs, pulls, warnings, modelCalls>>

\* _process_single: call self.forward on preprocess's result
Forward ==
    /\ pc = "fwd"
    /\ trace' = Append(trace, <<"forward", idx>>)
    /\ \E calleeRaises \in BOOLEAN :
         LET r == forward(out, sanitize_parameters(kwargs).forward, calleeRaises)
         IN  /\ modelCalls' = modelCalls + r.called
             /\ IF r.raised
                THEN Fail(Exc(r.err, "forward")) /\ out' = out
                ELSE /\ pc' = "post" /\ out' = r.val /\ err' = err
                  /\ UNCHANGED <<idx, output, retKind, ret, yielded>>
    /\ UNCHANGED <<classVars, objVars, mode, input, kwargs, pulls, warnings>>

\* _process_single: call self.postprocess on forward's result
Postprocess ==
    /\ pc = "post"
    /\ trace' = Append(trace, <<"postprocess", idx>>)
    /\ \E calleeRaises \in BOOLEAN :
         LET r == postprocess(out, sanitize_parameters(kwargs).postprocess, calleeRaises)
         IN  IF r.raised
             THEN Fail(Exc(r.err, "postprocess")) /\ out' = out
             ELSE /\ pc' = "check" /\ out' = r.val /\ err' = err
                  /\ UNCHANGED <<idx, output, retKind, ret, yielded>>
    /\ UNCHANGED <<classVars, objVars, mode, input, kwargs, pulls, warnings, modelCalls>>

\* mutant: a single result is handed back wrapped in a list
Deliver_Wrapped ==
    CASE mode = "single" ->
           /\ pc' = "done" /\ retKind' = "list" /\ ret' = <<out>>
           /\ UNCHANGED <<idx, output, yielded>>
      [] mode = "list" ->
           /\ output' = Append(output, out)
           /\ IF idx < Len(input)
              THEN pc' = "pre" /\ idx' = idx + 1 /\ UNCHANGED <<retKind, ret>>
              ELSE pc' = "done" /\ idx' = idx /\ retKind' = "list" /\ ret' = output'
           /\ UNCHANGED yielded
      [] OTHER ->
           /\ pc' = "yielded" /\ yielded' = Append(yielded, out)
           /\ UNCHANGED <<idx, output, retKind, ret>>

\* mutant: results are collected newest first
Deliver_Prepend ==
    CASE mode = "single" ->
           /\ pc' = "done" /\ retKind' = "mapping" /\ ret' = <<out>>
           /\ UNCHANGED <<idx, output, yielded>>
      [] mode = "list" ->
           /\ output' = <<out>> \o output
           /\ IF idx < Len(input)
              THEN pc' = "pre" /\ idx' = idx + 1 /\ UNCHANGED <<retKind, ret>>
              ELSE pc' = "done" /\ idx' = idx /\ retKind' = "list" /\ ret' = output'
           /\ UNCHANGED yielded
      [] OTHER ->
           /\ pc' = "yielded" /\ yielded' = Append(yielded, out)
           /\ UNCHANGED <<idx, output, retKind, ret>>

\* _process_single returns out to its caller: __call__ returns it, appends it
\* and goes on with the next element, or the generator yields it
Deliver ==
    CASE mode = "single" ->
           /\ pc' = "done" /\ retKind' = "mapping" /\ ret' = <<out>>
           /\ UNCHANGED <<idx, output, yielded>>
      [] mode = "list" ->
           /\ output' = Append(output, out)
           /\ IF idx < Len(input)
              THEN pc' = "pre" /\ idx' = idx + 1 /\ UNCHANGED <<retKind, ret>>
              ELSE pc' = "done" /\ idx' = idx /\ retKind' = "list" /\ ret' = output'
           /\ UNCHANGED yielded
      [] OTHER ->
           /\ pc' = "yielded" /\ yielded' = Append(yielded, out)
           /\ UNCHANGED <<idx, output, retKind, ret>>

\* _process_single: self._check_output(out), then return out
CheckOutput ==
    /\ pc = "check"
    /\ trace' = Append(trace, <<"check_output", idx>>)
    /\ LET r == check_output(out)
       IN  /\ warnings' = warnings + r.warned
           /\ IF r.raised
              THEN Fail([type |-> r.type, step |-> "check_output", idx |-> idx,
                         expected |-> r.expected, missing |-> r.missing])
              ELSE Deliver /\ err' = err
    /\ UNCHANGED <<classVars, objVars, mode, input, kwargs, out, pulls, modelCalls>>

Next ==
    \/ ConstructForCalls
    \/ CallAny
    \/ Pull
    \/ Preprocess
    \/ Forward
    \/ Postprocess
    \/ CheckOutput

Spec == Init /\ [][Next]_vars

\* ------------------------------------------------- properties of __call__
IsPrefix(s, t) == Len(s) <= Len(t) /\ SubSeq(t, 1, Len(s)) = s
Range(s) == {s[i] : i \in 1..Len(s)}
\* the steps of one element, in the order _process_single takes them
ItemSteps(i) ==
    << <<"preprocess", i>>, <<"forward", i>>, <<"postprocess", i>>, <<"check_output", i>> >>
StepNo(step) ==
    CASE step = "preprocess" -> 1 [] step = "forward" -> 2 [] step = "postprocess" -> 3
      [] step = "check_output" -> 4 [] OTHER -> 0
StepsUpTo(step, i) == SubSeq(ItemSteps(i), 1, StepNo(step))
\* the steps of the first n elements, one element after the other
RECURSIVE StepsOfFirst(_)
StepsOfFirst(n) == IF n <= 0 THEN <<>> ELSE StepsOfFirst(n - 1) \o ItemSteps(n)
\* postprocess(forward(preprocess(x))) with the default routing of the parameters
ExpectedResult(x, kw) ==
    <<"post", <<"fwd", <<"pre", <<"raw", x>>, {}>>, {}>>, kw>>
LastStep == IF trace = <<>> THEN <<"none", 0>> ELSE trace[Len(trace)]
\* the result o of element c reached the caller / was withheld from it
Delivered(c, o) ==
    CASE mode = "single" -> retKind = "mapping" /\ ret = <<o>>
      [] mode = "list" -> Len(output) >= c /\ output[c] = o
      [] OTHER -> Len(yielded) >= c /\ yielded[c] = o
NotDelivered(c) ==
    /\ retKind \notin {"mapping", "list"}
    /\ ret = <<>>
    /\ Len(output) = (IF mode = "list" THEN c - 1 ELSE 0)
    /\ Len(yielded) = (IF mode = "dataset" THEN c - 1 ELSE 0)

\* C1: for a single (non-list, non-dataset) input the steps preprocess, forward,
\* postprocess, _check_output run once each in that order, each on the previous
\* step's result, and a completed call returns the mapping
\* postprocess(forward(preprocess(input))) itself, not a list.
C1_SingleResult ==
    mode = "single" =>
        /\ IsPrefix(trace, ItemSteps(1))
        /\ (pc = "fwd" => out = <<"pre", <<"raw", input[1]>>, {}>>)
        /\ (pc = "post" => out = <<"fwd", <<"pre", <<"raw", input[1]>>, {}>>, {}>>)
        /\ (pc = "check" => out = ExpectedResult(input[1], kwargs))
        /\ (pc = "done" <=> retKind # "none")
        /\ (pc = "done" =>
              /\ retKind = "mapping"
              /\ ret = <<ExpectedResult(input[1], kwargs)>>
              /\ trace = ItemSteps(1))
C1_Witness ==
    /\ mode = "single" /\ pc = "done" /\ retKind = "mapping"
    /\ input = << {"a"} >> /\ kwargs = {"topk"}

\* C2: a list of N items that all succeed yields a list of N results, the i-th
\* being the single-item result of the i-th input; the steps of item i all
\* come before the first step of item i+1.
C2_ListResults ==
    mode = "list" =>
        /\ IsPrefix(trace, StepsOfFirst(Len(input)))
        /\ \A i \in 1..Len(output) : output[i] = ExpectedResult(input[i], kwargs)
        /\ (retKind # "none" => pc = "done")
        /\ (pc = "done" =>
              /\ retKind = "list"
              /\ Len(ret) = Len(input)
              /\ \A i \in 1..Len(input) : ret[i] = ExpectedResult(input[i], kwargs)
              /\ trace = StepsOfFirst(Len(input)))
C2_Witness ==
    /\ mode = "list" /\ pc = "done" /\ retKind = "list"
    /\ Len(input) = 2 /\ input[1] # input[2] /\ Len(ret) = 2

\* C3: for a dataset __call__ returns a generator without processing anything;
\* the k-th pull yields the result of the k-th element; when the k-th result
\* is yielded exactly the first k elements have been processed, and element
\* i+1 is only touched after result i was yielded and a further pull was made.
C3_LazyDataset ==
    mode = "dataset" =>
        /\ retKind = "generator" /\ ret = <<>> /\ output = <<>>
        /\ (pulls = 0 => trace = <<>> /\ yielded = <<>> /\ pc = "generator")
        /\ \A k \in 1..Len(yielded) : yielded[k] = ExpectedResult(input[k], kwargs)
        /\ Len(yielded) <= pulls
        /\ IsPrefix(trace, StepsOfFirst(pulls))
        /\ \A j \in 1..Len(trace) : trace[j][2] <= Len(yielded) + 1
        /\ (pc = "yielded" => Len(yielded) = pulls /\ trace = StepsOfFirst(pulls))
C3_Witness ==
    /\ mode = "dataset" /\ pc = "yielded" /\ Len(yielded) = 1 /\ Len(input) = 2
    /\ trace = ItemSteps(1)

\* position of key k in the registry's list R
Pos(R, k) == CHOOSE p \in 1..Len(R) : R[p] = k
InOrderOf(m, R) ==
    \A i, j \in 1..Len(m) : i < j => Pos(R, m[i]) < Pos(R, m[j])

\* C4: with a registered task requiring R and a postprocess result with keys K,
\* the output check fails iff R \ K is non-empty; the error names exactly the
\* keys of R \ K in registry order and no result is handed back for the item;
\* otherwise the result is handed back unchanged.
C4_RegisteredCheck ==
    (group_key \in DOMAIN TASK_OUTPUTS /\ LastStep[1] = "check_output") =>
        LET R == TASK_OUTPUTS[group_key]
            K == MappingKeys(out)
            c == LastStep[2]
        IN  /\ (pc = "raised" <=> Range(R) \ K # {})
            /\ (pc = "raised" =>
                  /\ err.type = "ValueError" /\ err.step = "check_output" /\ err.idx = c
                  /\ Range(err.missing) = Range(R) \ K
                  /\ InOrderOf(err.missing, R)
                  /\ err.expected = R
                  /\ NotDelivered(c))
            /\ (pc # "raised" =>
                  /\ Delivered(c, out)
                  /\ out = ExpectedResult(input[c], kwargs)
                  /\ K = input[c])
C4_Witness ==
    /\ group_key = "task-ba" /\ pc = "raised" /\ LastStep[1] = "check_output"
    /\ MappingKeys(out) = {"a"} /\ err.missing = <<"b">>

\* C5: with an unregistered task the check never fails, whatever keys the
\* result has: every checked result is handed back and one warning is logged
\* per processed item.
C5_UnregisteredCheck ==
    (group_key # NoGroupKey /\ group_key \notin DOMAIN TASK_OUTPUTS) =>
        /\ err.step # "check_output"
        /\ warnings = Cardinality({j \in 1..Len(trace) : trace[j][1] = "check_output"})
        /\ warnings = (CASE mode = "list" -> Len(output)
                         [] mode = "dataset" -> Len(yielded)
                         [] OTHER -> Len(ret))
        /\ (LastStep[1] = "check_output" => pc # "raised" /\ Delivered(LastStep[2], out))
C5_Witness ==
    /\ group_key = "task-unregistered"
    /\ mode = "list" /\ pc = "done" /\ Len(ret) = 2 /\ warnings = 2
    /\ MappingKeys(ret[1]) = {} /\ MappingKeys(ret[2]) = {"b"}

\* C8: has_multiple_models is true iff more than one model was resolved, and on
\* a pipeline constructed with more than one model the default forward fails
\* with its own precondition error (AssertionError) without invoking a model.
C8_MultiModelForward ==
    phase = "ready" =>
        /\ (has_multiple_models <=> Len(models.elems) > 1)
        /\ (Len(models.elems) > 1 /\ ~overrides.fwd /\ LastStep[1] = "forward" =>
              pc = "raised" /\ err.type = "AssertionError" /\ modelCalls = 0)

\* C10: in a list call the first failing step of item k ends the call: the
\* steps taken are those of items 1..k-1 and of item k up to the failing step,
\* each once; the failure reaches the caller and no list is returned.
C10_BatchAborts ==
    (mode = "list" /\ (pc = "raised" \/ err # NoErr)) =>
        /\ pc = "raised" /\ err.type # "none"
        /\ err.idx \in 1..Len(input) /\ err.idx = idx
        /\ trace = StepsOfFirst(err.idx - 1) \o StepsUpTo(err.step, err.idx)
        /\ retKind = "none" /\ ret = <<>>
        /\ Len(output) = err.idx - 1
C10_Witness ==
    /\ mode = "list" /\ pc = "raised" /\ err.idx = 2 /\ err.step = "forward"
    /\ Len(output) = 1 /\ retKind = "none"

\* --------------------------------------------- properties of construction
\* the constructor ran and the configuration, if any, was parsed
Resolved == phase # "new" /\ ctorErr # "ConfigError"
\* a value the resolver rejects: non-empty, neither a string nor a model
Invalid(e) == Truthy(e) /\ e.kind \notin {"str", "Model"}
\* an entry the resolver hands back as it is
PassedThrough(e) ==
    e.kind = "Model" \/ ~Truthy(e) \/ (e.kind = "str" /\ ~is_official_hub_path(e.val))
\* index of the first rejected entry of a list, Len + 1 if there is none
FirstInvalid(es) ==
    IF \E i \in 1..Len(es) : Invalid(es[i])
    THEN CHOOSE i \in 1..Len(es) : Invalid(es[i]) /\ \A j \in 1..(i - 1) : ~Invalid(es[j])
    ELSE Len(es) + 1
\* the collaborator calls of resolving entries 1..n one after the other
RECURSIVE LogsOfFirst(_, _)
LogsOfFirst(es, n) ==
    IF n <= 0 THEN <<>> ELSE LogsOfFirst(es, n - 1) \o initiate_single_model(es[n]).log

\* C6: a model instance is handed back as the same instance without download
\* or construction; a falsy argument is handed back unchanged; a non-empty
\* value that is neither string nor model raises ValueError and resolves
\* nothing; a list is resolved entry by entry, in order, into a list of the
\* same length.
C6_Resolution ==
    Resolved =>
        LET a == ctorArgs.model
        IN  IF a.kind # "list"
            THEN /\ (a.kind = "Model" =>
                       phase = "ready" /\ model = a /\ models = ListVal(<<a>>) /\ hubLog = <<>>)
                 /\ (~Truthy(a) =>
                       phase = "ready" /\ model = a /\ models = ListVal(<<a>>) /\ hubLog = <<>>)
                 /\ (Invalid(a) =>
                       /\ phase = "init_raised" /\ ctorErr = "ValueError"
                       /\ model = Unset /\ models = Unset /\ hubLog = <<>>)
            ELSE IF FirstInvalid(a.elems) > Len(a.elems)
            THEN /\ phase = "ready"
                 /\ Len(models.elems) = Len(a.elems)
                 /\ \A i \in 1..Len(a.elems) :
                      /\ PassedThrough(a.elems[i]) => models.elems[i] = a.elems[i]
                      /\ models.elems[i] = initiate_single_model(a.elems[i]).val
                 /\ hubLog = LogsOfFirst(a.elems, Len(a.elems))
            ELSE /\ phase = "init_raised" /\ ctorErr = "ValueError"
                 /\ models = Unset
                 /\ hubLog = LogsOfFirst(a.elems, FirstInvalid(a.elems) - 1)
C6_Witness ==
    /\ phase = "ready"
    /\ ctorArgs.model = ListVal(<<ModelObj("m2"), Str("damo/model")>>)
    /\ models = ListVal(<<ModelObj("m2"), ModelObj("/cache/damo/model")>>)
    /\ hubLog = << <<"snapshot_download", "damo/model">>,
                   <<"from_pretrained", "/cache/damo/model">> >>

\* C7 as stated: every non-empty single-model value that is neither a
\* recognized identifier string nor a model instance makes construction fail
\* with the invalid-model-argument error.
C7_RejectsUnrecognized ==
    LET a == ctorArgs.model
    IN  (/\ Resolved /\ a.kind # "list" /\ Truthy(a) /\ a.kind # "Model"
         /\ ~(a.kind = "str" /\ is_official_hub_path(a.val)))
        => (phase = "init_raised" /\ ctorErr = "ValueError")

\* C7 amended: construction fails with ValueError for every non-empty
\* single-model value that is neither a string nor a model instance; a
\* non-empty string the hub does not recognize is not rejected but stored
\* unchanged as the pipeline's model.
C7_RejectsNonString ==
    LET a == ctorArgs.model
    IN  (Resolved /\ a.kind # "list" /\ Truthy(a) /\ a.kind # "Model") =>
            /\ (a.kind # "str" =>
                  phase = "init_raised" /\ ctorErr = "ValueError" /\ model = Unset)
            /\ (a.kind = "str" /\ ~is_official_hub_path(a.val) =>
                  phase = "ready" /\ ctorErr = "none" /\ model = a /\ models = ListVal(<<a>>))
C7_Witness ==
    /\ phase = "ready" /\ ctorArgs.model = Str("plain text")
    /\ model = Str("plain text") /\ models = ListVal(<<Str("plain text")>>)

\* C9 as stated: the resolved model list is non-empty only if a model was
\* supplied; constructing with no model leaves it empty.
C9_NonEmptyOnlyIfSupplied ==
    phase = "ready" =>
        /\ (Len(models.elems) > 0 => ctorArgs.model # None)
        /\ (ctorArgs.model = None => models = ListVal(<<>>))

\* C9 amended: constructing with no model leaves the resolved list with one
\* entry, None (self.model is None, not multi-model); the list is empty only
\* for an empty list of models, and holds an entry other than None only if a
\* model was supplied.
C9_NoModelGivesNoneEntry ==
    phase = "ready" =>
        /\ (ctorArgs.model = None =>
              model = None /\ models = ListVal(<<None>>) /\ ~has_multiple_models)
        /\ (Len(models.elems) = 0 <=> ctorArgs.model = ListVal(<<>>))
        /\ ((\E i \in 1..Len(models.elems) : models.elems[i] # None) => ctorArgs.model # None)
C9_Witness ==
    /\ phase = "ready" /\ ctorArgs.model = None /\ ctorArgs.config_file = "configuration.json"
    /\ models = ListVal(<<None>>) /\ model = None

====
